---------------------------- MODULE Spec2Model ----------------------------
(***************************************************************************)
(* A model of the Text2SQL RAG pipeline and its evaluation harness:        *)
(*   Text2SQLRAGSystem   (train_rag_model, retrieve_context, generate_sql) *)
(*   Text2SQLEvaluator   (the five scores, comprehensive_evaluation)       *)
(*   RAGASAssessment     (evaluate_with_ragas and its fallback)            *)
(*                                                                         *)
(* Strings are sequences of one-character strings, so that the regular     *)
(* expressions and the str methods of the source are computed character by *)
(* character.  Scores are exact rationals [n, d] in lowest terms.          *)
(***************************************************************************)
EXTENDS Integers, Sequences, FiniteSets, TLC

VARIABLES
    pc,               \* position of the running handler ("idle" when none runs)
    arg,              \* the arguments of the current / last call
    ret,              \* the outcome of the last call: returned value or raised exception
    world,            \* what the external services answer: endpoint, index, database, files
    metrics_history,  \* Text2SQLEvaluator.metrics_history
    run,              \* the local variables of the running handler
    executed,         \* the statements sent to the database during the current / last call
    failures,         \* the exceptions external calls raised during the current / last call
    collection        \* the records written to the vector index

vars == <<pc, arg, ret, world, metrics_history, run, executed, failures, collection>>

-----------------------------------------------------------------------------
(* Bounds of the model *)

\* number of pieces concatenated into an input string of a pure function
MaxPieces == 4

\* number of test cases in a test set
MaxCases == 2

\* number of comprehensive_evaluation runs of one evaluator
MaxRuns == 1

\* number of train_rag_model calls on one RAG system
MaxIngestions == 2

\* number of reports in the history of one evaluator
MaxReports == 3

-----------------------------------------------------------------------------
(* Rational numbers *)

RECURSIVE GCD(_, _)
GCD(a, b) == IF b = 0 THEN a ELSE GCD(b, a % b)

Abs(x) == IF x < 0 THEN -x ELSE x

\* the rational n/d (d > 0) in lowest terms
Q(n, d) == LET g == GCD(Abs(n), d) IN [n |-> n \div g, d |-> d \div g]

QAdd(x, y) == Q(x.n * y.d + y.n * x.d, x.d * y.d)
QSub(x, y) == Q(x.n * y.d - y.n * x.d, x.d * y.d)
QDivInt(x, k) == Q(x.n, x.d * k)
QLeq(x, y) == x.n * y.d <= y.n * x.d
QLess(x, y) == x.n * y.d < y.n * x.d

RECURSIVE QSum(_)
QSum(s) == IF s = <<>> THEN Q(0, 1) ELSE QAdd(Head(s), QSum(Tail(s)))

-----------------------------------------------------------------------------
(* Python str methods and re.sub patterns, on sequences of characters *)

LowerLetters == <<"a","b","c","d","e","f","g","h","i","j","k","l","m",
                  "n","o","p","q","r","s","t","u","v","w","x","y","z">>
UpperLetters == <<"A","B","C","D","E","F","G","H","I","J","K","L","M",
                  "N","O","P","Q","R","S","T","U","V","W","X","Y","Z">>

\* the characters \s matches and str.strip() removes
Whitespace == {" ", "\n", "\t"}

\* the upper-case letter of each lower-case letter
UpperOf == [c \in {LowerLetters[i] : i \in 1..26} |->
               UpperLetters[CHOOSE i \in 1..26 : LowerLetters[i] = c]]

UpperChar(c) == IF c \in DOMAIN UpperOf THEN UpperOf[c] ELSE c

\* str.upper()
upper(s) == [i \in 1..Len(s) |-> UpperChar(s[i])]

\* s[i..j] (1-based, inclusive), empty when out of range
Slice(s, i, j) == IF i > j THEN <<>> ELSE SubSeq(s, i, j)

\* whether sub occurs in s at 1-based position i
OccursAt(s, sub, i) ==
    /\ i >= 1
    /\ i + Len(sub) - 1 <= Len(s)
    /\ \A k \in 1..Len(sub) : s[i + k - 1] = sub[k]

RECURSIVE FindFrom(_, _, _)
FindFrom(s, sub, i) ==
    IF i + Len(sub) - 1 > Len(s) THEN -1
    ELSE IF OccursAt(s, sub, i) THEN i - 1
    ELSE FindFrom(s, sub, i + 1)

\* str.find(sub): 0-based position of the first occurrence, -1 when absent
find(s, sub) == FindFrom(s, sub, 1)

\* sub in s
contains(s, sub) == find(s, sub) # -1

\* str.count(c) for a single character c
count(s, c) == Cardinality({i \in 1..Len(s) : s[i] = c})

\* first position >= i that holds no whitespace (Len(s)+1 when none)
RECURSIVE SkipWs(_, _)
SkipWs(s, i) == IF i <= Len(s) /\ s[i] \in Whitespace THEN SkipWs(s, i + 1) ELSE i

\* last position <= i that holds no whitespace (0 when none)
RECURSIVE SkipWsBack(_, _)
SkipWsBack(s, i) == IF i >= 1 /\ s[i] \in Whitespace THEN SkipWsBack(s, i - 1) ELSE i

\* str.strip()
strip(s) ==
    LET lo == SkipWs(s, 1)
        hi == SkipWsBack(s, Len(s))
    IN IF lo > hi THEN <<>> ELSE SubSeq(s, lo, hi)

\* re.sub of every whitespace run by one space
RECURSIVE SubWsFrom(_, _)
SubWsFrom(s, i) ==
    IF i > Len(s) THEN <<>>
    ELSE IF s[i] \in Whitespace THEN <<" ">> \o SubWsFrom(s, SkipWs(s, i))
    ELSE <<s[i]>> \o SubWsFrom(s, i + 1)

re_sub_whitespace(s) == SubWsFrom(s, 1)


\* re.sub of every quote character (double, single, backtick) by the empty string
\* (the double quote is written "dquote", the backtick "backtick")
QuoteChars == {"dquote", "'", "backtick"}
re_sub_quotes(s) == SelectSeq(s, LAMBDA c : c \notin QuoteChars)

\* re.sub of the block-comment pattern (slash star, the shortest run of
\* characters other than the newline, star slash) by the empty string
CommentOpen == <<"/", "*">>
CommentClose == <<"*", "/">>

RECURSIVE SubCommentFrom(_, _)
SubCommentFrom(s, i) ==
    IF i > Len(s) THEN <<>>
    ELSE LET ends == {k \in (i+2)..Len(s) : OccursAt(s, CommentClose, k)} IN
         IF OccursAt(s, CommentOpen, i) /\ ends # {}
         THEN LET k == CHOOSE e \in ends : \A f \in ends : e <= f IN
              IF \A m \in (i+2)..(k-1) : s[m] # "\n"
              THEN SubCommentFrom(s, k + 2)
              ELSE <<s[i]>> \o SubCommentFrom(s, i + 1)
         ELSE <<s[i]>> \o SubCommentFrom(s, i + 1)

re_sub_comments(s) == SubCommentFrom(s, 1)

\* re.sub of (three backticks, "sql", any whitespace run) by the empty string
Fence == <<"backtick", "backtick", "backtick">>
FenceSql == <<"backtick", "backtick", "backtick", "s", "q", "l">>

RECURSIVE SubFenceSqlFrom(_, _)
SubFenceSqlFrom(s, i) ==
    IF i > Len(s) THEN <<>>
    ELSE IF OccursAt(s, FenceSql, i) THEN SubFenceSqlFrom(s, SkipWs(s, i + 6))
    ELSE <<s[i]>> \o SubFenceSqlFrom(s, i + 1)

re_sub_fence_sql(s) == SubFenceSqlFrom(s, 1)

\* re.sub of (any whitespace run, three backticks) by the empty string
RECURSIVE SubFenceFrom(_, _)
SubFenceFrom(s, i) ==
    IF i > Len(s) THEN <<>>
    ELSE IF OccursAt(s, Fence, SkipWs(s, i)) THEN SubFenceFrom(s, SkipWs(s, i) + 3)
    ELSE <<s[i]>> \o SubFenceFrom(s, i + 1)

re_sub_fence(s) == SubFenceFrom(s, 1)

-----------------------------------------------------------------------------
(* Text2SQLEvaluator: the pure scorers *)

KwSelect == <<"S","E","L","E","C","T">>
KwFrom == <<"F","R","O","M">>

\* _evaluate_syntax with the keyword-order check moved before the parenthesis check
_evaluate_syntax_order_first(sql) ==
    IF sql = <<>> \/ strip(sql) = <<>> THEN Q(0, 1)
    ELSE LET sql_upper == upper(sql)
             has_select_from == contains(sql_upper, KwSelect) /\ contains(sql_upper, KwFrom)
             select_pos == find(sql_upper, KwSelect)
             from_pos == find(sql_upper, KwFrom)
         IN IF ~has_select_from THEN Q(0, 1)
            ELSE IF select_pos > from_pos THEN Q(3, 10)
            ELSE IF count(sql_upper, "(") # count(sql_upper, ")") THEN Q(1, 2)
            ELSE Q(1, 1)

\* Text2SQLEvaluator._evaluate_syntax
_evaluate_syntax(sql) ==
    IF sql = <<>> \/ strip(sql) = <<>> THEN Q(0, 1)
    ELSE LET sql_upper == upper(sql)
             has_select_from == contains(sql_upper, KwSelect) /\ contains(sql_upper, KwFrom)
             select_pos == find(sql_upper, KwSelect)
             from_pos == find(sql_upper, KwFrom)
         IN IF ~has_select_from THEN Q(0, 1)
            ELSE IF count(sql_upper, "(") # count(sql_upper, ")") THEN Q(1, 2)
            ELSE IF select_pos > from_pos THEN Q(3, 10)
            ELSE Q(1, 1)

\* Text2SQLEvaluator._evaluate_exact_match.normalize_sql
normalize_sql(sql) ==
    re_sub_comments(re_sub_quotes(strip(upper(re_sub_whitespace(sql)))))

\* Text2SQLEvaluator._evaluate_exact_match
_evaluate_exact_match(generated_sql, ground_truth_sql) ==
    IF normalize_sql(generated_sql) = normalize_sql(ground_truth_sql)
    THEN Q(1, 1) ELSE Q(0, 1)

-----------------------------------------------------------------------------
(* Text2SQLRAGSystem: output cleaning *)

\* _clean_sql_output without the substitution of the tagged opening fence
_clean_sql_output_untagged_only(sql) ==
    strip(re_sub_whitespace(re_sub_fence(sql)))

\* Text2SQLRAGSystem._clean_sql_output
_clean_sql_output(sql) ==
    strip(re_sub_whitespace(re_sub_fence(re_sub_fence_sql(sql))))

-----------------------------------------------------------------------------
(* The strings the pure functions are applied to *)

RECURSIVE Concats(_, _)
\* every concatenation of at most n pieces
Concats(pieces, n) ==
    IF n = 0 THEN {<<>>}
    ELSE LET shorter == Concats(pieces, n - 1) IN
         shorter \cup {s \o p : s \in shorter, p \in pieces}

Sp == <<" ">>
Nl == <<"\n">>

\* the examples of the contract of the syntax scorer
SqlPlain == <<"S","E","L","E","C","T"," ","a"," ","F","R","O","M"," ","t">>
SqlUnbalanced == <<"S","E","L","E","C","T"," ","a"," ","F","R","O","M"," ","t"," ","W","H","E","R","E"," ","(","x","=","1">>
SqlFromFirst == <<"F","R","O","M"," ","t"," ","S","E","L","E","C","T"," ","a">>
SqlFromFirstUnbalanced == <<"F","R","O","M"," ","t"," ","(","S","E","L","E","C","T"," ","a">>

SyntaxPieces == {KwSelect, <<"s","e","l","e","c","t">>, KwFrom, <<"F","r","o","m">>,
                 <<"(">>, <<")">>, Sp}
SyntaxInputs ==
    Concats(SyntaxPieces, MaxPieces)
        \cup {SqlPlain, SqlUnbalanced, SqlFromFirst, SqlFromFirstUnbalanced, Sp \o Nl}

NormalizePieces == {<<"a">>, Sp, Nl, <<"'">>, CommentOpen, CommentClose}
NormalizeInputs ==
    Concats(NormalizePieces, MaxPieces)
        \cup {<<"S","E","L","E","C","T"," "," ","*"," "," ","F","R","O","M"," ","t">>, <<"s","e","l","e","c","t"," ","*"," ","f","r","o","m"," ","t">>}

\* a raw model output: the SQL text body in a code fence, the opening fence
\* followed by a language tag (possibly empty) and a newline
Wrap(tag, body) == Fence \o tag \o Nl \o body \o Nl \o Fence

TagNone == <<>>
TagSql == <<"s","q","l">>
TagUpperSql == <<"S","Q","L">>
TagSqlite == <<"s","q","l","i","t","e">>
FenceTags == {TagNone, TagSql, TagUpperSql, TagSqlite}

SqlInventory == <<"S","E","L","E","C","T"," ","*"," ","F","R","O","M"," ","i","n","v","e","n","t","o","r","y","_","l","o","g","s">>

BodyPieces == {KwSelect, Sp, Nl, <<"backtick">>, TagSql}
HasFence(s) == contains(s, Fence)
FenceBodies ==
    {b \in Concats(BodyPieces, MaxPieces) : ~HasFence(b)} \cup {SqlInventory}
\* a fenced output, with the tag and the body it was built from
Fenced(tag, body) == [sql |-> Wrap(tag, body), tag |-> tag, body |-> body]
CleanInputs == {Fenced(tag, body) : tag \in FenceTags, body \in FenceBodies}

-----------------------------------------------------------------------------
(* Specification of the pure functions: the input is drawn at the start,   *)
(* an action applies the function to it.                                   *)

TextCalls ==
    [op : {"_evaluate_syntax"}, sql : SyntaxInputs]
        \cup [op : {"normalize_sql"}, sql : NormalizeInputs]
        \cup {[op |-> "_clean_sql_output", sql |-> f.sql, tag |-> f.tag, body |-> f.body] :
                 f \in CleanInputs}

NoRet == [status |-> "none"]
Returned(v) == [status |-> "returned", value |-> v]
Raised(e) == [status |-> "raised", exc |-> e]

NoRun == [op |-> "none"]
NoWorld == [kind |-> "none"]

InitText ==
    /\ pc = "call"
    /\ arg \in TextCalls
    /\ ret = NoRet
    /\ world = NoWorld
    /\ metrics_history = <<>>
    /\ run = NoRun
    /\ executed = <<>>
    /\ failures = <<>>
    /\ collection = <<>>

TextFrame == UNCHANGED <<arg, world, metrics_history, run, executed, failures, collection>>

EvaluateSyntax ==
    /\ pc = "call"
    /\ arg.op = "_evaluate_syntax"
    /\ ret' = Returned(_evaluate_syntax(arg.sql))
    /\ pc' = "done"
    /\ TextFrame

NormalizeSql ==
    /\ pc = "call"
    /\ arg.op = "normalize_sql"
    /\ ret' = Returned(normalize_sql(arg.sql))
    /\ pc' = "done"
    /\ TextFrame

CleanSqlOutput ==
    /\ pc = "call"
    /\ arg.op = "_clean_sql_output"
    /\ ret' = Returned(_clean_sql_output(arg.sql))
    /\ pc' = "done"
    /\ TextFrame

NextText == EvaluateSyntax \/ NormalizeSql \/ CleanSqlOutput

TextSpec == InitText /\ [][NextText]_vars

-----------------------------------------------------------------------------
(* Claims about the pure functions (checked under TextSpec) *)

SyntaxDone == pc = "done" /\ arg.op = "_evaluate_syntax"
NormalizeDone == pc = "done" /\ arg.op = "normalize_sql"
CleanDone == pc = "done" /\ arg.op = "_clean_sql_output"

\* kw occurs in s at position i, letter case ignored
OccursNoCase(s, kw, i) ==
    /\ i + Len(kw) - 1 <= Len(s)
    /\ \A k \in 1..Len(kw) : UpperChar(s[i + k - 1]) = kw[k]
PositionsOf(s, kw) == {i \in 1..Len(s) : OccursNoCase(s, kw, i)}
Least(S) == CHOOSE i \in S : \A j \in S : i <= j
IsBlank(s) == \A i \in 1..Len(s) : s[i] \in Whitespace
Unbalanced(s) ==
    Cardinality({i \in 1..Len(s) : s[i] = "("}) # Cardinality({i \in 1..Len(s) : s[i] = ")"})
SelectAfterFrom(s) == Least(PositionsOf(s, KwSelect)) > Least(PositionsOf(s, KwFrom))

\* the score of the first matching rule of the fixed priority chain
SyntaxRuleScore(s) ==
    IF IsBlank(s) \/ PositionsOf(s, KwSelect) = {} \/ PositionsOf(s, KwFrom) = {}
    THEN Q(0, 1)
    ELSE IF Unbalanced(s) THEN Q(1, 2)
    ELSE IF SelectAfterFrom(s) THEN Q(3, 10)
    ELSE Q(1, 1)

\* C1: _evaluate_syntax returns the score of the first matching rule, in the
\* order: blank or missing SELECT/FROM -> 0.0, unbalanced parentheses -> 0.5,
\* SELECT after FROM -> 0.3, otherwise 1.0; the result is one of these four.
C1_SyntaxPriorityChain ==
    SyntaxDone =>
        /\ ret.status = "returned"
        /\ ret.value = SyntaxRuleScore(arg.sql)
        /\ ret.value \in {Q(0, 1), Q(3, 10), Q(1, 2), Q(1, 1)}

\* C1 witness: unbalanced parentheses and SELECT after FROM together score 0.5
C1_Witness ==
    /\ SyntaxDone
    /\ PositionsOf(arg.sql, KwSelect) # {} /\ PositionsOf(arg.sql, KwFrom) # {}
    /\ Unbalanced(arg.sql)
    /\ SelectAfterFrom(arg.sql)
    /\ ret.value = Q(1, 2)

\* C7 (as claimed): normalizing an already normalized string gives the same
\* string, normalize(normalize(s)) = normalize(s)
C7_NormalizeIdempotent ==
    NormalizeDone => normalize_sql(ret.value) = ret.value

\* the whitespace-separated words of s
RECURSIVE WordsFrom(_, _, _)
WordsFrom(s, i, cur) ==
    IF i > Len(s) THEN (IF cur = <<>> THEN <<>> ELSE <<cur>>)
    ELSE IF s[i] \in Whitespace
         THEN (IF cur = <<>> THEN <<>> ELSE <<cur>>) \o WordsFrom(s, i + 1, <<>>)
         ELSE WordsFrom(s, i + 1, Append(cur, s[i]))
Words(s) == WordsFrom(s, 1, <<>>)

\* the words joined by single spaces
RECURSIVE JoinWords(_)
JoinWords(ws) ==
    IF ws = <<>> THEN <<>>
    ELSE IF Len(ws) = 1 THEN ws[1]
    ELSE ws[1] \o Sp \o JoinWords(Tail(ws))

\* the cleaned output is the body of the fence, whitespace runs collapsed and
\* trimmed, for every fence whose tag is among tags
CleansFences(tags) ==
    (CleanDone /\ arg.tag \in tags) =>
        /\ ret.value = JoinWords(Words(arg.body))
        /\ ~HasFence(ret.value)

\* C8 (as claimed): the fence and any language tag are removed
C8_CleanAnyTag == CleansFences(FenceTags)

\* C8 (amended): the fence is removed when it carries no tag or the
\* lower-case tag sql; the body comes back with its whitespace runs collapsed
\* to single spaces, trimmed, and without a triple backtick
C8_CleanSqlTagOrNone == CleansFences({TagNone, TagSql})

\* C8 witness: the end-to-end example of the contract
C8_Witness ==
    /\ CleanDone
    /\ arg.tag = TagSql
    /\ arg.body = SqlInventory
    /\ arg.sql = Wrap(TagSql, SqlInventory)
    /\ ret.value = SqlInventory

-----------------------------------------------------------------------------
(* The external services.  world is drawn once, at construction:            *)
(*   world.reply[q]    what the text-generation endpoint does with the      *)
(*                     prompt of question q: it raises, or answers a text   *)
(*   world.index[q]    the (document, distance) pairs of the vector index,  *)
(*                     nearest first, for the embedding of question q       *)
(*   world.cosine      the cosine similarity the vectoriser library returns *)
(*   world.db          how the database answers the two statements          *)
(*   world.test_cases  the test set the caller prepared                     *)
(* Exceptions of the embedding function and of the index query are drawn    *)
(* at each call.                                                            *)

\* an optional argument: None, or a value
NoneArg == [none |-> TRUE]
Some(v) == [none |-> FALSE, value |-> v]

\* what an operation did: its outcome, the exceptions external calls raised
\* on the way, and the statements it sent to the database
Out(r, f, e) == [ret |-> r, failures |-> f, executed |-> e]

Questions == {"q1", "q2"}
Faults == {"none", "embedding", "query"}

\* retrieve_context(question, n_results = 5)
n_results == 5

\* the first n elements of s
Take(s, n) == IF Len(s) <= n THEN s ELSE SubSeq(s, 1, n)

\* retrieve_context with the score computed as 1 - distance
retrieve_context_unscaled(question, fault) ==
    IF fault = "embedding" THEN Out(Raised("EmbeddingError"), <<"EmbeddingError">>, <<>>)
    ELSE IF fault = "query" THEN Out(Raised("QueryError"), <<"QueryError">>, <<>>)
    ELSE LET results == Take(world.index[question], n_results)
             contexts == [k \in 1..Len(results) |-> results[k].document]
             scores == [k \in 1..Len(results) |-> Q(1 - results[k].distance, 1)]
         IN Out(Returned([contexts |-> contexts, scores |-> scores]), <<>>, <<>>)

\* Text2SQLRAGSystem.retrieve_context: embed_query may raise, collection.query
\* may raise, neither is caught; each distance d becomes the score 1 - d/10
retrieve_context(question, fault) ==
    IF fault = "embedding" THEN Out(Raised("EmbeddingError"), <<"EmbeddingError">>, <<>>)
    ELSE IF fault = "query" THEN Out(Raised("QueryError"), <<"QueryError">>, <<>>)
    ELSE LET results == Take(world.index[question], n_results)
             contexts == [k \in 1..Len(results) |-> results[k].document]
             scores == [k \in 1..Len(results) |-> Q(10 - results[k].distance, 10)]
         IN Out(Returned([contexts |-> contexts, scores |-> scores]), <<>>, <<>>)

\* the call of the endpoint and the cleaning of its answer, inside the try
\* block: an exception of the endpoint is caught and the empty string returned
CallEndpoint(question) ==
    LET reply == world.reply[question] IN
    IF reply.raises THEN Out(Returned(<<>>), <<"GenerationError">>, <<>>)
    ELSE Out(Returned(_clean_sql_output(strip(reply.response))), <<>>, <<>>)

\* generate_sql with the exception of the endpoint raised again
generate_sql_reraising(question, contexts, fault) ==
    LET retrieved == IF contexts.none THEN retrieve_context(question, fault)
                     ELSE Out(Returned([contexts |-> contexts.value]), <<>>, <<>>)
    IN IF retrieved.ret.status = "raised" THEN retrieved
       ELSE IF world.reply[question].raises
            THEN Out(Raised("GenerationError"), <<"GenerationError">>, <<>>)
            ELSE CallEndpoint(question)

\* generate_sql with the retrieval inside the try block
generate_sql_catching_retrieval(question, contexts, fault) ==
    LET retrieved == IF contexts.none THEN retrieve_context(question, fault)
                     ELSE Out(Returned([contexts |-> contexts.value]), <<>>, <<>>)
    IN IF retrieved.ret.status = "raised"
       THEN Out(Returned(<<>>), retrieved.failures, <<>>)
       ELSE CallEndpoint(question)

\* Text2SQLRAGSystem.generate_sql: the retrieval (when no contexts are passed)
\* is outside the try block, the endpoint call inside
generate_sql(question, contexts, fault) ==
    LET retrieved == IF contexts.none THEN retrieve_context(question, fault)
                     ELSE Out(Returned([contexts |-> contexts.value]), <<>>, <<>>)
    IN IF retrieved.ret.status = "raised" THEN retrieved
       ELSE CallEndpoint(question)

-----------------------------------------------------------------------------
(* Text2SQLEvaluator: the scores that use the external services *)

\* the truth value of a connection string: None and "" are false
Truthy(db_connection) == db_connection \notin {"None", ""}

\* the comparison of the two result sets
CompareRows(gen_result, gt_result) ==
    IF Len(gen_result) # Len(gt_result) THEN Q(0, 1)
    ELSE IF \E k \in 1..Len(gen_result) : gen_result[k] # gt_result[k] THEN Q(1, 2)
    ELSE Q(1, 1)

\* the two executions in the other order: the reference statement first
ExecuteBothReferenceFirst(generated_sql, ground_truth_sql, db) ==
    IF db.connects = 0 THEN Out(Returned(Q(0, 1)), <<"ConnectError">>, <<>>)
    ELSE IF db.gt.error
         THEN Out(Returned(Q(0, 1)), <<"ExecuteError">>, <<ground_truth_sql>>)
    ELSE IF db.connects = 1
         THEN Out(Returned(Q(0, 1)), <<"ConnectError">>, <<ground_truth_sql>>)
    ELSE IF db.gen.error
         THEN Out(Returned(Q(0, 1)), <<"ExecuteError">>, <<ground_truth_sql, generated_sql>>)
    ELSE Out(Returned(CompareRows(db.gen.rows, db.gt.rows)), <<>>,
             <<ground_truth_sql, generated_sql>>)

\* Text2SQLEvaluator._evaluate_execution_accuracy, against a database db that
\* accepts db.connects connections and answers the generated statement with
\* db.gen and the reference statement with db.gt (rows, or an error)
ExecuteBoth(generated_sql, ground_truth_sql, db) ==
    IF db.connects = 0 THEN Out(Returned(Q(0, 1)), <<"ConnectError">>, <<>>)
    ELSE IF db.gen.error
         THEN Out(Returned(Q(0, 1)), <<"ExecuteError">>, <<generated_sql>>)
    ELSE IF db.connects = 1
         THEN Out(Returned(Q(0, 1)), <<"ConnectError">>, <<generated_sql>>)
    ELSE IF db.gt.error
         THEN Out(Returned(Q(0, 1)), <<"ExecuteError">>, <<generated_sql, ground_truth_sql>>)
    ELSE Out(Returned(CompareRows(db.gen.rows, db.gt.rows)), <<>>,
             <<generated_sql, ground_truth_sql>>)

\* create_engine raises on None and on the empty string, inside the outer
\* try block
_evaluate_execution_accuracy(generated_sql, ground_truth_sql, db_connection) ==
    IF ~Truthy(db_connection) THEN Out(Returned(Q(0, 1)), <<"ArgumentError">>, <<>>)
    ELSE ExecuteBoth(generated_sql, ground_truth_sql, world.db)

\* the characters \w matches
Digits == {"0", "1", "2", "3", "4", "5", "6", "7", "8", "9"}
WordChars == {LowerLetters[i] : i \in 1..26} \cup {UpperLetters[i] : i \in 1..26}
                 \cup Digits \cup {"_"}

KwWhere == <<"W","H","E","R","E">>

\* whether the table pattern (FROM, a whitespace run, a word) matches in sql
HasTable(sql) ==
    \E i \in 1..Len(sql) :
        /\ OccursAt(sql, KwFrom, i)
        /\ SkipWs(sql, i + 4) > i + 4
        /\ SkipWs(sql, i + 4) <= Len(sql)
        /\ sql[SkipWs(sql, i + 4)] \in WordChars

\* extract_sql_elements gives the empty string when none of its three
\* patterns can match: the column pattern needs SELECT, the table pattern
\* FROM and the condition pattern WHERE.  It gives a non-empty string when
\* the table pattern matches.  In between, the elements are taken as
\* non-empty (world.cosine ranges over 0.0 too).
NoElements(sql) ==
    LET u == upper(sql) IN
    /\ ~HasTable(u)
    /\ ~contains(u, KwSelect)
    /\ ~contains(u, KwWhere)

\* Text2SQLEvaluator._evaluate_semantic_similarity
_evaluate_semantic_similarity(generated_sql, ground_truth_sql) ==
    IF NoElements(generated_sql) \/ NoElements(ground_truth_sql) THEN Q(0, 1)
    ELSE world.cosine

\* _evaluate_retrieval_quality scoring 0.0 when no statement was generated
_evaluate_retrieval_quality_of_statement(question, generated_sql, fault) ==
    LET retrieved == retrieve_context(question, fault) IN
    IF retrieved.ret.status = "raised" THEN retrieved
    ELSE LET scores == retrieved.ret.value.scores IN
         IF scores = <<>> \/ generated_sql = <<>> THEN Out(Returned(Q(0, 1)), <<>>, <<>>)
         ELSE Out(Returned(QDivInt(QSum(scores), Len(scores))), <<>>, <<>>)

\* Text2SQLEvaluator._evaluate_retrieval_quality
_evaluate_retrieval_quality(question, generated_sql, fault) ==
    LET retrieved == retrieve_context(question, fault) IN
    IF retrieved.ret.status = "raised" THEN retrieved
    ELSE LET scores == retrieved.ret.value.scores IN
         IF scores = <<>> THEN Out(Returned(Q(0, 1)), <<>>, <<>>)
         ELSE Out(Returned(QDivInt(QSum(scores), Len(scores))), <<>>, <<>>)

\* the metrics mapping built when both retrievals succeeded
MetricsOf(question, ground_truth_sql, generated_sql, exec_score, retrieval_quality) ==
    [question |-> question,
     generated_sql |-> generated_sql,
     ground_truth_sql |-> ground_truth_sql,
     syntax_accuracy |-> _evaluate_syntax(generated_sql),
     execution_accuracy |-> exec_score,
     exact_match |-> _evaluate_exact_match(generated_sql, ground_truth_sql),
     semantic_similarity |-> _evaluate_semantic_similarity(generated_sql, ground_truth_sql),
     retrieval_quality |-> retrieval_quality]

\* the second step of evaluate_single_example: the generated statement is
\* executed only with a connection string and a syntax score above 0
ExecutionStep(generated_sql, ground_truth_sql, db_connection) ==
    IF Truthy(db_connection) /\ QLess(Q(0, 1), _evaluate_syntax(generated_sql))
    THEN _evaluate_execution_accuracy(generated_sql, ground_truth_sql, db_connection)
    ELSE Out(Returned(Q(0, 1)), <<>>, <<>>)

\* the steps of evaluate_single_example after the generation
ScoreGenerated(question, ground_truth_sql, db_connection, gen, exec, fault2) ==
    LET rq == _evaluate_retrieval_quality(question, gen.ret.value, fault2) IN
    IF rq.ret.status = "raised"
    THEN Out(rq.ret, gen.failures \o exec.failures \o rq.failures, exec.executed)
    ELSE Out(Returned(MetricsOf(question, ground_truth_sql, gen.ret.value,
                                exec.ret.value, rq.ret.value)),
             gen.failures \o exec.failures, exec.executed)

\* evaluate_single_example executing whenever a connection string is given
evaluate_single_example_always_executing(question, ground_truth_sql, db_connection, fault1, fault2) ==
    LET gen == generate_sql(question, NoneArg, fault1) IN
    IF gen.ret.status = "raised" THEN gen
    ELSE ScoreGenerated(question, ground_truth_sql, db_connection, gen,
             IF Truthy(db_connection)
             THEN _evaluate_execution_accuracy(gen.ret.value, ground_truth_sql, db_connection)
             ELSE Out(Returned(Q(0, 1)), <<>>, <<>>),
             fault2)

\* Text2SQLEvaluator.evaluate_single_example; fault1 is drawn for the
\* retrieval inside generate_sql, fault2 for the one of the retrieval quality
evaluate_single_example(question, ground_truth_sql, db_connection, fault1, fault2) ==
    LET gen == generate_sql(question, NoneArg, fault1) IN
    IF gen.ret.status = "raised" THEN gen
    ELSE ScoreGenerated(question, ground_truth_sql, db_connection, gen,
             ExecutionStep(gen.ret.value, ground_truth_sql, db_connection), fault2)

MetricKeys == {"syntax_accuracy", "execution_accuracy", "exact_match",
               "semantic_similarity", "retrieval_quality"}

\* the name of a metric in average_metrics
AvgKey ==
    [syntax_accuracy |-> "avg_syntax_accuracy",
     execution_accuracy |-> "avg_execution_accuracy",
     exact_match |-> "avg_exact_match",
     semantic_similarity |-> "avg_semantic_similarity",
     retrieval_quality |-> "avg_retrieval_quality"]
AvgKeys == {AvgKey[k] : k \in MetricKeys}
MetricOfAvg(a) == CHOOSE k \in MetricKeys : AvgKey[k] = a

\* sum(values)/len(values) if values else 0.0
MeanOrZero(values) ==
    IF values # <<>> THEN QDivInt(QSum(values), Len(values)) ELSE Q(0, 1)

\* the report with sum(values) in place of the mean
EvaluationReport_summing(test_dataset, results, total_metrics) ==
    [total_cases |-> Len(test_dataset),
     results |-> results,
     average_metrics |-> [a \in AvgKeys |-> QSum(total_metrics[MetricOfAvg(a)])],
     model_used |-> world.model_name]

\* the report comprehensive_evaluation builds after its loop
EvaluationReport(test_dataset, results, total_metrics) ==
    [total_cases |-> Len(test_dataset),
     results |-> results,
     average_metrics |-> [a \in AvgKeys |-> MeanOrZero(total_metrics[MetricOfAvg(a)])],
     model_used |-> world.model_name]

-----------------------------------------------------------------------------
(* RAGASAssessment *)

\* a fallback that scores nothing
_fallback_evaluation_zero(test_cases) ==
    [faithfulness |-> Q(0, 1), answer_relevancy |-> Q(0, 1),
     context_recall |-> Q(0, 1), context_precision |-> Q(0, 1)]

\* RAGASAssessment._fallback_evaluation: 0.7, 0.6, 0.8, 0.75
_fallback_evaluation(test_cases) ==
    [faithfulness |-> Q(7, 10), answer_relevancy |-> Q(6, 10),
     context_recall |-> Q(8, 10), context_precision |-> Q(75, 100)]

-----------------------------------------------------------------------------
(* The worlds of the evaluation runs *)

Answers(raw) == [raises |-> FALSE, response |-> raw]
EndpointRaises == [raises |-> TRUE]

RawFenced == Wrap(TagSql, SqlPlain) \o Nl
RawProse == <<"n","o"," ","i","d","e","a">>
SqlLowerSpaced == <<"s","e","l","e","c","t"," "," ","a"," ","f","r","o","m"," ","t">>

Replies ==
    {[q1 |-> r1, q2 |-> r2] :
        r1 \in {Answers(RawFenced), Answers(SqlUnbalanced), EndpointRaises},
        r2 \in {Answers(SqlFromFirst), Answers(RawProse)}}

Hit(doc, d) == [document |-> doc, distance |-> d]
IndexEmpty == <<>>
IndexNear == <<Hit("ddl_1", 0), Hit("doc_1", 5)>>
IndexFar == <<Hit("ddl_1", 4), Hit("ex_1", 30)>>
IndexMany == <<Hit("ddl_1", 1), Hit("ddl_2", 2), Hit("doc_1", 3),
               Hit("doc_2", 4), Hit("ex_1", 5), Hit("ex_2", 60)>>

Indexes ==
    {[q1 |-> i1, q2 |-> i2] : i1 \in {IndexEmpty, IndexNear, IndexMany},
                              i2 \in {IndexNear, IndexFar}}

Cosines == {Q(0, 1), Q(2, 3), Q(1, 1)}

Rows(r) == [error |-> FALSE, rows |-> r]
ExecuteRaises == [error |-> TRUE]
DbSame == [connects |-> 2, gen |-> Rows(<<"r1", "r2">>), gt |-> Rows(<<"r1", "r2">>)]
DbDiffer == [connects |-> 2, gen |-> Rows(<<"r2", "r1">>), gt |-> Rows(<<"r1", "r2">>)]
DbFewer == [connects |-> 2, gen |-> Rows(<<"r1">>), gt |-> Rows(<<"r1", "r2">>)]
DbGenRaises == [connects |-> 2, gen |-> ExecuteRaises, gt |-> Rows(<<"r1">>)]
DbDown == [connects |-> 0, gen |-> ExecuteRaises, gt |-> ExecuteRaises]
Databases == {DbSame, DbDiffer, DbFewer, DbGenRaises, DbDown}

\* further databases: the reference statement raises, the second connection
\* fails, both result sets are empty, only the last row differs
DbGtRaises == [connects |-> 2, gen |-> Rows(<<"r1">>), gt |-> ExecuteRaises]
DbOneConnection == [connects |-> 1, gen |-> Rows(<<"r1">>), gt |-> Rows(<<"r1">>)]
DbNoRows == [connects |-> 2, gen |-> Rows(<<>>), gt |-> Rows(<<>>)]
DbLastDiffers == [connects |-> 2, gen |-> Rows(<<"r1", "r3">>), gt |-> Rows(<<"r1", "r2">>)]
MoreDatabases == {DbGtRaises, DbOneConnection, DbNoRows, DbLastDiffers}

DbConnections == {"None", "", "mysql://test_db"}

TestCase1 == [question |-> "q1", sql |-> SqlLowerSpaced]
TestCase2 == [question |-> "q2", sql |-> SqlFromFirst]
TestCases == {TestCase1, TestCase2}

RECURSIVE SeqsUpTo(_, _)
\* the sequences over S of length at most n
SeqsUpTo(S, n) ==
    IF n = 0 THEN {<<>>}
    ELSE LET shorter == SeqsUpTo(S, n - 1) IN
         shorter \cup {Append(t, x) : t \in shorter, x \in S}

Datasets == SeqsUpTo(TestCases, MaxCases)

ReplyBase == [q1 |-> Answers(RawFenced), q2 |-> Answers(SqlFromFirst)]
IndexBase == [q1 |-> IndexMany, q2 |-> IndexFar]

\* the services: every endpoint with every database over one index, every
\* index and every cosine over one endpoint and database
Services ==
    [reply : Replies, db : Databases, index : {IndexBase}, cosine : {Q(2, 3)}]
    \cup [reply : {ReplyBase}, db : MoreDatabases, index : {IndexBase}, cosine : {Q(2, 3)}]
    \cup [reply : {ReplyBase}, db : {DbSame}, index : Indexes, cosine : {Q(2, 3)}]
    \cup [reply : {ReplyBase}, db : {DbSame}, index : {IndexBase}, cosine : Cosines]

Worlds ==
    {[kind |-> "evaluation", model_name |-> "qwen2.5:3b",
      reply |-> v.reply, db |-> v.db, index |-> v.index, cosine |-> v.cosine,
      test_cases |-> d] : v \in Services, d \in Datasets}

-----------------------------------------------------------------------------
(* The operations of one evaluator over one RAG system *)

NoCall == [op |-> "none"]

Init ==
    /\ pc = "idle"
    /\ arg = NoCall
    /\ ret = NoRet
    /\ world \in Worlds
    /\ metrics_history = <<>>
    /\ run = NoRun
    /\ executed = <<>>
    /\ failures = <<>>
    /\ collection = <<>>

\* a call that runs to its end in one step
Call(a, o) ==
    /\ arg' = a
    /\ ret' = o.ret
    /\ failures' = o.failures
    /\ executed' = o.executed
    /\ pc' = "returned"
    /\ UNCHANGED <<world, metrics_history, run, collection>>

RetrieveContext ==
    /\ pc = "idle"
    /\ \E q \in Questions, fault \in Faults :
          Call([op |-> "retrieve_context", question |-> q],
               retrieve_context(q, fault))

ContextsOf(q) ==
    LET results == Take(world.index[q], n_results) IN
    [k \in 1..Len(results) |-> results[k].document]

GenerateSql ==
    /\ pc = "idle"
    /\ \E q \in Questions, given \in BOOLEAN :
          \E fault \in (IF given THEN {"none"} ELSE Faults) :
              LET contexts == IF given THEN Some(ContextsOf(q)) ELSE NoneArg IN
              Call([op |-> "generate_sql", question |-> q, contexts |-> contexts],
                   generate_sql(q, contexts, fault))

EvaluateSingleExample ==
    /\ pc = "idle"
    /\ \E c \in TestCases, db_connection \in DbConnections,
          fault1 \in Faults, fault2 \in Faults :
          Call([op |-> "evaluate_single_example", question |-> c.question,
                ground_truth_sql |-> c.sql, db_connection |-> db_connection],
               evaluate_single_example(c.question, c.sql, db_connection, fault1, fault2))

\* the generated statements _evaluate_retrieval_quality is called with
GeneratedSqls == {<<>>, TestCase1.sql, TestCase2.sql}

EvaluateRetrievalQuality ==
    /\ pc = "idle"
    /\ \E q \in Questions, generated_sql \in GeneratedSqls, fault \in Faults :
          Call([op |-> "_evaluate_retrieval_quality", question |-> q,
                generated_sql |-> generated_sql],
               _evaluate_retrieval_quality(q, generated_sql, fault))

EvaluateExecutionAccuracy ==
    /\ pc = "idle"
    /\ \E generated_sql \in GeneratedSqls, c \in TestCases, db_connection \in DbConnections :
          Call([op |-> "_evaluate_execution_accuracy", generated_sql |-> generated_sql,
                ground_truth_sql |-> c.sql, db_connection |-> db_connection],
               _evaluate_execution_accuracy(generated_sql, c.sql, db_connection))

\* comprehensive_evaluation: the locals before the loop
ComprehensiveEvaluationEnter ==
    /\ pc = "idle"
    /\ \E db_connection \in DbConnections :
          arg' = [op |-> "comprehensive_evaluation",
                  test_dataset |-> world.test_cases,
                  db_connection |-> db_connection]
    /\ run' = [op |-> "comprehensive_evaluation",
               results |-> <<>>,
               total_metrics |-> [k \in MetricKeys |-> <<>>],
               i |-> 0]
    /\ ret' = NoRet
    /\ failures' = <<>>
    /\ executed' = <<>>
    /\ pc' = "comprehensive_evaluation"
    /\ UNCHANGED <<world, metrics_history, collection>>

ComprehensiveEvaluationBegin ==
    /\ Len(metrics_history) < MaxRuns
    /\ ComprehensiveEvaluationEnter

\* comprehensive_evaluation: one iteration of the loop; an exception of
\* evaluate_single_example ends the call
ComprehensiveEvaluationCase ==
    /\ pc = "comprehensive_evaluation"
    /\ run.i < Len(arg.test_dataset)
    /\ \E fault1 \in Faults, fault2 \in Faults :
          LET test_case == arg.test_dataset[run.i + 1]
              o == evaluate_single_example(test_case.question, test_case.sql,
                                           arg.db_connection, fault1, fault2)
          IN /\ failures' = failures \o o.failures
             /\ executed' = executed \o o.executed
             /\ IF o.ret.status = "raised"
                THEN /\ ret' = o.ret
                     /\ run' = NoRun
                     /\ pc' = "returned"
                ELSE /\ run' = [run EXCEPT
                                  !.results = Append(@, o.ret.value),
                                  !.total_metrics =
                                      [k \in MetricKeys |-> Append(@[k], o.ret.value[k])],
                                  !.i = @ + 1]
                     /\ UNCHANGED <<ret, pc>>
    /\ UNCHANGED <<arg, world, metrics_history, collection>>

\* the end of comprehensive_evaluation with the history holding the last
\* report only
ComprehensiveEvaluationEndKeepingLast ==
    /\ pc = "comprehensive_evaluation"
    /\ run.i = Len(arg.test_dataset)
    /\ LET evaluation_report ==
               EvaluationReport(arg.test_dataset, run.results, run.total_metrics)
       IN /\ metrics_history' = <<evaluation_report>>
          /\ ret' = Returned(evaluation_report)
    /\ run' = NoRun
    /\ pc' = "returned"
    /\ UNCHANGED <<arg, world, executed, failures, collection>>

\* comprehensive_evaluation: after the loop
ComprehensiveEvaluationEnd ==
    /\ pc = "comprehensive_evaluation"
    /\ run.i = Len(arg.test_dataset)
    /\ LET evaluation_report ==
               EvaluationReport(arg.test_dataset, run.results, run.total_metrics)
       IN /\ metrics_history' = Append(metrics_history, evaluation_report)
          /\ ret' = Returned(evaluation_report)
    /\ run' = NoRun
    /\ pc' = "returned"
    /\ UNCHANGED <<arg, world, executed, failures, collection>>

\* what the evaluation framework returns when it works
RagasScore ==
    [faithfulness |-> Q(9, 10), answer_relevancy |-> Q(1, 2),
     context_recall |-> Q(1, 1), context_precision |-> Q(1, 4)]

\* evaluate_with_ragas: the imports; a missing framework is caught
EvaluateWithRagasBegin ==
    /\ pc = "idle"
    /\ arg' = [op |-> "evaluate_with_ragas", test_cases |-> world.test_cases]
    /\ executed' = <<>>
    /\ \E available \in BOOLEAN :
          IF available
          THEN /\ run' = [op |-> "evaluate_with_ragas", questions |-> <<>>,
                          answers |-> <<>>, contexts_list |-> <<>>,
                          ground_truths |-> <<>>, references |-> <<>>, i |-> 0]
               /\ ret' = NoRet
               /\ failures' = <<>>
               /\ pc' = "evaluate_with_ragas"
          ELSE /\ run' = NoRun
               /\ ret' = Returned(_fallback_evaluation(world.test_cases))
               /\ failures' = <<"ImportError">>
               /\ pc' = "returned"
    /\ UNCHANGED <<world, metrics_history, collection>>

\* prepare_ragas_dataset: one iteration of the loop, inside the try block of
\* evaluate_with_ragas
EvaluateWithRagasCase ==
    /\ pc = "evaluate_with_ragas"
    /\ run.i < Len(arg.test_cases)
    /\ \E fault \in Faults :
          LET case == arg.test_cases[run.i + 1]
              retrieved == retrieve_context(case.question, fault)
          IN IF retrieved.ret.status = "raised"
             THEN /\ ret' = Returned(_fallback_evaluation(arg.test_cases))
                  /\ failures' = failures \o retrieved.failures
                  /\ run' = NoRun
                  /\ pc' = "returned"
             ELSE LET contexts == retrieved.ret.value.contexts
                      generated == generate_sql(case.question, Some(contexts), "none")
                  IN /\ run' = [run EXCEPT
                                  !.questions = Append(@, case.question),
                                  !.answers = Append(@, generated.ret.value),
                                  !.contexts_list = Append(@, contexts),
                                  !.ground_truths = Append(@, <<case.sql>>),
                                  !.references = Append(@, case.sql),
                                  !.i = @ + 1]
                     /\ failures' = failures \o generated.failures
                     /\ UNCHANGED <<ret, pc>>
    /\ UNCHANGED <<arg, world, metrics_history, executed, collection>>

\* evaluate_with_ragas: the call of the framework on the prepared dataset
EvaluateWithRagasEnd ==
    /\ pc = "evaluate_with_ragas"
    /\ run.i = Len(arg.test_cases)
    /\ \E raises \in BOOLEAN :
          IF raises
          THEN /\ ret' = Returned(_fallback_evaluation(arg.test_cases))
               /\ failures' = Append(failures, "RagasError")
          ELSE /\ ret' = Returned(RagasScore)
               /\ UNCHANGED failures
    /\ run' = NoRun
    /\ pc' = "returned"
    /\ UNCHANGED <<arg, world, metrics_history, executed, collection>>

\* the caller takes the result of the call and goes on to its next call
ReturnToCaller ==
    /\ pc = "returned"
    /\ pc' = "idle"
    /\ arg' = NoCall
    /\ ret' = NoRet
    /\ executed' = <<>>
    /\ failures' = <<>>
    /\ UNCHANGED <<world, metrics_history, run, collection>>

Next ==
    \/ ReturnToCaller
    \/ RetrieveContext
    \/ GenerateSql
    \/ EvaluateSingleExample
    \/ EvaluateRetrievalQuality
    \/ EvaluateExecutionAccuracy
    \/ ComprehensiveEvaluationBegin
    \/ ComprehensiveEvaluationCase
    \/ ComprehensiveEvaluationEnd
    \/ EvaluateWithRagasBegin
    \/ EvaluateWithRagasCase
    \/ EvaluateWithRagasEnd

Spec == Init /\ [][Next]_vars

-----------------------------------------------------------------------------
(* Claims about the operations (checked under Spec) *)

Done(op) == pc = "returned" /\ arg.op = op
InSeq(x, t) == \E i \in 1..Len(t) : t[i] = x
RetrievalFailed == InSeq("EmbeddingError", failures) \/ InSeq("QueryError", failures)

\* C2: evaluate_single_example sends statements to the database only with a
\* connection string and a syntax score above 0 of the generated statement
\* (the first statement sent); otherwise nothing is executed and
\* execution_accuracy is 0.0.
C2_ExecutionOnlyWithConnectionAndSyntax ==
    Done("evaluate_single_example") =>
        /\ executed # <<>> =>
              /\ Truthy(arg.db_connection)
              /\ QLess(Q(0, 1), SyntaxRuleScore(executed[1]))
        /\ ret.status = "returned" =>
              /\ executed # <<>> => executed[1] = ret.value.generated_sql
              /\ (arg.db_connection \in {"None", ""}
                     \/ ret.value.syntax_accuracy = Q(0, 1)) =>
                    /\ executed = <<>>
                    /\ ret.value.execution_accuracy = Q(0, 1)

\* C2 witness: a connection string is given, the generation failed (empty
\* string, syntax score 0.0) and nothing was executed
C2_Witness ==
    /\ Done("evaluate_single_example")
    /\ ret.status = "returned"
    /\ arg.db_connection = "mysql://test_db"
    /\ world.db.connects = 2
    /\ ret.value.generated_sql = <<>>
    /\ ret.value.syntax_accuracy = Q(0, 1)
    /\ ret.value.execution_accuracy = Q(0, 1)
    /\ executed = <<>>

\* C3: when the endpoint raises, generate_sql returns the empty string, with
\* contexts passed in or retrieved (the retrieval having succeeded).
C3_EndpointFailureGivesEmptyString ==
    Done("generate_sql") =>
        /\ (world.reply[arg.question].raises /\ ~RetrievalFailed) =>
              /\ ret = Returned(<<>>)
              /\ InSeq("GenerationError", failures)
        /\ InSeq("GenerationError", failures) => ret = Returned(<<>>)

\* C3 witness: the contexts were retrieved inside generate_sql, then the
\* endpoint raised
C3_Witness ==
    /\ Done("generate_sql")
    /\ arg.contexts.none
    /\ world.reply[arg.question].raises
    /\ failures = <<"GenerationError">>
    /\ ret = Returned(<<>>)

FallbackScores ==
    [faithfulness |-> Q(7, 10), answer_relevancy |-> Q(3, 5),
     context_recall |-> Q(4, 5), context_precision |-> Q(3, 4)]

Propagating == {"retrieve_context", "generate_sql", "_evaluate_retrieval_quality",
                "evaluate_single_example", "comprehensive_evaluation"}

\* C4 (as claimed): an exception of the embedding function propagates out of
\* every operation that performed the retrieval, evaluate_with_ragas included
C4_EmbeddingFailurePropagatesEverywhere ==
    (pc = "returned" /\ InSeq("EmbeddingError", failures)) =>
        ret = Raised("EmbeddingError")

\* C4 (amended): an exception of the embedding function propagates out of
\* retrieve_context, generate_sql (without contexts), evaluate_single_example
\* and comprehensive_evaluation; evaluate_with_ragas catches it and returns
\* the constant fallback scores
C4_EmbeddingFailurePropagatesButRagas ==
    (pc = "returned" /\ InSeq("EmbeddingError", failures)) =>
        /\ arg.op \in Propagating => ret = Raised("EmbeddingError")
        /\ arg.op = "evaluate_with_ragas" => ret = Returned(FallbackScores)
        /\ arg.op \in Propagating \cup {"evaluate_with_ragas"}

\* C4 witness: comprehensive_evaluation ended by the exception of the
\* embedding function
C4_Witness ==
    /\ Done("comprehensive_evaluation")
    /\ InSeq("EmbeddingError", failures)
    /\ ret = Raised("EmbeddingError")

\* C5: evaluate_with_ragas always returns; with the framework missing or
\* its evaluate call raising it returns exactly 0.7, 0.6, 0.8, 0.75
C5_FallbackOnFrameworkFailure ==
    Done("evaluate_with_ragas") =>
        /\ ret.status = "returned"
        /\ (InSeq("ImportError", failures) \/ InSeq("RagasError", failures)) =>
              ret.value = FallbackScores

\* C5 witness: the evaluate call raised on a prepared, non-empty dataset
C5_Witness ==
    /\ Done("evaluate_with_ragas")
    /\ arg.test_cases # <<>>
    /\ InSeq("RagasError", failures)
    /\ ret = Returned(FallbackScores)

InUnit(x) == QLeq(Q(0, 1), x) /\ QLeq(x, Q(1, 1))

RECURSIVE SumDistances(_)
SumDistances(hits) ==
    IF hits = <<>> THEN 0 ELSE Head(hits).distance + SumDistances(Tail(hits))

\* the hits the index returns for the question of the call
HitsOf(q) == Take(world.index[q], 5)

RECURSIVE SumMetric(_, _)
SumMetric(results, k) ==
    IF results = <<>> THEN Q(0, 1)
    ELSE QAdd(Head(results)[k], SumMetric(Tail(results), k))

\* the records are those of the first n test cases, in their order
RecordsFollow(results, test_dataset, n) ==
    /\ Len(results) = n
    /\ \A i \in 1..n :
          /\ results[i].question = test_dataset[i].question
          /\ results[i].ground_truth_sql = test_dataset[i].sql

\* C10: comprehensive_evaluation takes the test cases in their order; its
\* report has total_cases = the number of test cases, one record per test
\* case in the same order, and for each of the five metrics the arithmetic
\* mean over the records (0.0 when there is none).
C10_ReportAggregates ==
    /\ pc = "comprehensive_evaluation" =>
          /\ run.i <= Len(arg.test_dataset)
          /\ RecordsFollow(run.results, arg.test_dataset, run.i)
    /\ (Done("comprehensive_evaluation") /\ ret.status = "returned") =>
          LET report == ret.value
              n == Len(arg.test_dataset)
          IN /\ report.total_cases = n
             /\ RecordsFollow(report.results, arg.test_dataset, n)
             /\ DOMAIN report.average_metrics =
                    {"avg_syntax_accuracy", "avg_execution_accuracy", "avg_exact_match",
                     "avg_semantic_similarity", "avg_retrieval_quality"}
             /\ \A k \in MetricKeys :
                    LET avg == report.average_metrics[AvgKey[k]] IN
                    IF n = 0 THEN avg = Q(0, 1)
                    ELSE Q(avg.n * n, avg.d) = SumMetric(report.results, k)

\* C10 witness: a report over two different test cases whose syntax scores
\* differ
C10_Witness ==
    /\ Done("comprehensive_evaluation")
    /\ ret.status = "returned"
    /\ ret.value.total_cases = 2
    /\ ret.value.results[1].question # ret.value.results[2].question
    /\ ret.value.results[1].syntax_accuracy # ret.value.results[2].syntax_accuracy

\* the mean of 1 - d/10 over the hits of a question, 0.0 without hits
MeanRelevance(q) ==
    LET hits == HitsOf(q) IN
    IF hits = <<>> THEN Q(0, 1)
    ELSE Q(10 * Len(hits) - SumDistances(hits), 10 * Len(hits))

\* C11: the scores retrieve_context returns are 1 - d/10 of the distances of
\* the first five hits; the retrieval-quality score of a question, computed
\* alone or inside evaluate_single_example, is their arithmetic mean, 0.0
\* when there is none, whatever the generated statement.
C11_RetrievalQualityIsMeanOfScores ==
    /\ (Done("retrieve_context") /\ ret.status = "returned") =>
          LET hits == HitsOf(arg.question) IN
          /\ Len(ret.value.scores) = Len(hits)
          /\ \A k \in 1..Len(hits) :
                ret.value.scores[k] = QSub(Q(1, 1), Q(hits[k].distance, 10))
    /\ (Done("_evaluate_retrieval_quality") /\ ret.status = "returned") =>
          ret.value = MeanRelevance(arg.question)
    /\ (Done("evaluate_single_example") /\ ret.status = "returned") =>
          ret.value.retrieval_quality = MeanRelevance(arg.question)

\* C11 witness: no statement was generated, the index holds more than five
\* hits for the question, and the score is the mean over the first five
C11_Witness ==
    /\ Done("_evaluate_retrieval_quality")
    /\ ret.status = "returned"
    /\ arg.generated_sql = <<>>
    /\ Len(world.index[arg.question]) > 5
    /\ ret.value = MeanRelevance(arg.question)
    /\ ret.value # Q(0, 1)

\* the connection of the call can be opened k times
Connects(k) == Truthy(arg.db_connection) /\ world.db.connects >= k

\* both statements ran and gave rows
BothAnswered == Connects(2) /\ ~world.db.gen.error /\ ~world.db.gt.error

\* the two result sets have as many rows
SameRowCount == Len(world.db.gen.rows) = Len(world.db.gt.rows)

\* the rows at each position are equal
RowsAgree == \A k \in 1..Len(world.db.gt.rows) : world.db.gen.rows[k] = world.db.gt.rows[k]

\* C13: _evaluate_execution_accuracy returns 0.0 when a connection or one of
\* the two executions fails or the row counts differ, 0.5 when the counts
\* match and a row differs from the reference row at its position, 1.0 when
\* every row equals it; the generated statement is executed first and the
\* reference statement is not executed when the generated one raised.
C13_ExecutionScoreAndOrder ==
    Done("_evaluate_execution_accuracy") =>
        /\ ret.status = "returned"
        /\ ret.value = (IF ~BothAnswered THEN Q(0, 1)
                        ELSE IF ~SameRowCount THEN Q(0, 1)
                        ELSE IF ~RowsAgree THEN Q(1, 2)
                        ELSE Q(1, 1))
        /\ executed = (IF ~Connects(1) THEN <<>>
                       ELSE IF world.db.gen.error \/ ~Connects(2) THEN <<arg.generated_sql>>
                       ELSE <<arg.generated_sql, arg.ground_truth_sql>>)

\* C13 witness: the generated statement raised, the reference statement,
\* which differs from it, was not executed, and the score is 0.0
C13_Witness ==
    /\ Done("_evaluate_execution_accuracy")
    /\ Connects(2)
    /\ world.db.gen.error
    /\ arg.generated_sql # arg.ground_truth_sql
    /\ executed = <<arg.generated_sql>>
    /\ ret = Returned(Q(0, 1))

-----------------------------------------------------------------------------
(* The history of one evaluator over several comprehensive_evaluation runs *)

HistoryWorlds ==
    {[kind |-> "evaluation", model_name |-> "qwen2.5:3b",
      reply |-> ReplyBase, db |-> db, index |-> IndexBase, cosine |-> Q(2, 3),
      test_cases |-> d] : db \in {DbSame, DbDiffer}, d \in Datasets}

InitHistory ==
    /\ pc = "idle"
    /\ arg = NoCall
    /\ ret = NoRet
    /\ world \in HistoryWorlds
    /\ metrics_history = <<>>
    /\ run = NoRun
    /\ executed = <<>>
    /\ failures = <<>>
    /\ collection = <<>>

ComprehensiveEvaluationAgain ==
    /\ Len(metrics_history) < MaxReports
    /\ ComprehensiveEvaluationEnter

NextHistory ==
    \/ ComprehensiveEvaluationAgain
    \/ ComprehensiveEvaluationCase
    \/ ComprehensiveEvaluationEnd
    \/ ReturnToCaller

HistorySpec == InitHistory /\ [][NextHistory]_vars

\* a step that ends a comprehensive_evaluation call
EndsRun == pc = "comprehensive_evaluation" /\ pc' = "returned"

\* C14: the history changes only by the append of the report a call returns,
\* after the whole test set was processed; every call that returns normally
\* appends its report; a call ended by an exception leaves the history as it
\* was.
C14_HistoryAppendOnly ==
    [][/\ metrics_history' # metrics_history =>
             /\ EndsRun
             /\ ret'.status = "returned"
             /\ run.i = Len(arg.test_dataset)
             /\ Len(run.results) = Len(arg.test_dataset)
       /\ (EndsRun /\ ret'.status = "returned") =>
             metrics_history' = Append(metrics_history, ret'.value)
       /\ (EndsRun /\ ret'.status = "raised") =>
             metrics_history' = metrics_history]_vars

\* C14 witness: a run over two test cases failed after statements of its
\* first test case were executed, and the history holds the two different
\* reports of the earlier runs
C14_Witness ==
    /\ Done("comprehensive_evaluation")
    /\ ret.status = "raised"
    /\ Len(arg.test_dataset) = 2
    /\ Len(executed) > 2
    /\ Len(metrics_history) = 2
    /\ metrics_history[1] # metrics_history[2]

-----------------------------------------------------------------------------
(* Text2SQLRAGSystem.train_rag_model *)

DigitChars == <<"0", "1", "2", "3", "4", "5", "6", "7", "8", "9">>

RECURSIVE Decimal(_)
\* str(n) of a natural number
Decimal(n) ==
    IF n < 10 THEN <<DigitChars[n + 1]>>
    ELSE Decimal(n \div 10) \o <<DigitChars[(n % 10) + 1]>>

Underscore == <<"_">>

\* an id of the prefix and the index alone
SnippetIdWithoutFile(prefix, file, i) == prefix \o Underscore \o Decimal(i)

\* the id of the line with index i of a file: prefix, file and index joined by _
SnippetId(prefix, file, i) == prefix \o Underscore \o file \o Underscore \o Decimal(i)

PrefixDdl == <<"d","d","l">>
PrefixDoc == <<"d","o","c">>
PrefixEx == <<"e","x">>

\* the loop over the lines of a file: a snippet of every line that is not
\* empty once stripped, with the index of the line in its id
CollectLines(prefix, type, file) ==
    LET lines == world.files[file]
        stripped == [i \in 1..Len(lines) |->
                        [document |-> strip(lines[i]),
                         metadata |-> [type |-> type, source |-> file],
                         id |-> SnippetId(prefix, file, i - 1)]]
    IN SelectSeq(stripped, LAMBDA x : x.document # <<>>)

\* one of the three loops over the files of a kind
RECURSIVE CollectFiles(_, _, _)
CollectFiles(prefix, type, files) ==
    IF files = <<>> THEN <<>>
    ELSE CollectLines(prefix, type, Head(files))
             \o CollectFiles(prefix, type, Tail(files))

\* the snippets in the order train_rag_model collects them
CollectAll(ddl_files, doc_files, example_files) ==
    CollectFiles(PrefixDdl, "ddl", ddl_files)
        \o CollectFiles(PrefixDoc, "documentation", doc_files)
        \o CollectFiles(PrefixEx, "example", example_files)

batch_size == 100

\* t[i : i + batch_size + 1], one element too many
BatchSliceOneMore(t, i) ==
    IF i >= Len(t) THEN <<>>
    ELSE SubSeq(t, i + 1, IF i + batch_size + 1 < Len(t) THEN i + batch_size + 1 ELSE Len(t))

\* the slice t[i : i + batch_size] of a list
BatchSlice(t, i) ==
    IF i >= Len(t) THEN <<>>
    ELSE SubSeq(t, i + 1, IF i + batch_size < Len(t) THEN i + batch_size ELSE Len(t))

\* what embed_documents returns for a batch when it does not raise
Embeddings(batch_docs) == [k \in 1..Len(batch_docs) |-> [embedding_of |-> batch_docs[k]]]

\* the files of the knowledge base
FileDdl == <<"a",".","s","q","l">>
FileDoc == <<"b",".","t","x","t">>
FileEx == <<"b",".","t","x","t","_","3">>

\* a file of n lines: every fifth line is blank, the others hold the file
\* name and the line number between a leading space and the newline
FileOfLines(file, n) ==
    [i \in 1..n |-> IF i % 5 = 2 THEN <<" ", "\n">>
                    ELSE Sp \o file \o <<":">> \o Decimal(i) \o Nl]

TrainWorlds ==
    {[kind |-> "ingestion",
      files |-> [f \in {FileDdl, FileDoc, FileEx} |->
                    IF f = FileDdl THEN FileOfLines(f, a)
                    ELSE IF f = FileDoc THEN FileOfLines(f, b)
                    ELSE FileOfLines(f, 3)]] :
        a \in {126, 251}, b \in {0, 4}}

\* the arguments of the train_rag_model calls
TrainArgs ==
    {[op |-> "train_rag_model", ddl_files |-> d, doc_files |-> o, example_files |-> e] :
        d \in {<<>>, <<FileDdl>>}, o \in {<<FileDoc>>}, e \in {<<>>, <<FileEx, FileDoc>>}}

InitTrain ==
    /\ pc = "idle"
    /\ arg = NoCall
    /\ ret = NoRet
    /\ world \in TrainWorlds
    /\ metrics_history = <<>>
    /\ run = [op |-> "none", calls |-> 0]
    /\ executed = <<>>
    /\ failures = <<>>
    /\ collection = <<>>

\* train_rag_model: the three loops that read the files
TrainRagModelBegin ==
    /\ pc = "idle"
    /\ run.calls < MaxIngestions
    /\ \E a \in TrainArgs :
          LET all == CollectAll(a.ddl_files, a.doc_files, a.example_files) IN
          /\ arg' = a
          /\ run' = [op |-> "train_rag_model",
                     calls |-> run.calls + 1,
                     all_documents |-> [k \in 1..Len(all) |-> all[k].document],
                     metadatas |-> [k \in 1..Len(all) |-> all[k].metadata],
                     ids |-> [k \in 1..Len(all) |-> all[k].id],
                     i |-> 0,
                     committed |-> Len(collection)]
    /\ ret' = NoRet
    /\ failures' = <<>>
    /\ pc' = "train_rag_model"
    /\ UNCHANGED <<world, metrics_history, executed, collection>>

\* train_rag_model: one iteration of the batch loop; embed_documents or
\* collection.add may raise, which ends the call
TrainRagModelBatch ==
    /\ pc = "train_rag_model"
    /\ run.i < Len(run.all_documents)
    /\ \E outcome \in {"added", "EmbeddingError", "AddError"} :
          LET batch_docs == BatchSlice(run.all_documents, run.i)
              batch_metas == BatchSlice(run.metadatas, run.i)
              batch_ids == BatchSlice(run.ids, run.i)
          IN IF outcome = "added"
             THEN /\ collection' = Append(collection,
                                      [embeddings |-> Embeddings(batch_docs),
                                       documents |-> batch_docs,
                                       metadatas |-> batch_metas,
                                       ids |-> batch_ids])
                  /\ run' = [run EXCEPT !.i = @ + batch_size]
                  /\ UNCHANGED <<ret, failures, pc>>
             ELSE /\ ret' = Raised(outcome)
                  /\ failures' = Append(failures, outcome)
                  /\ pc' = "returned"
                  /\ UNCHANGED <<collection, run>>
    /\ UNCHANGED <<arg, world, metrics_history, executed>>

\* train_rag_model: after the batch loop
TrainRagModelEnd ==
    /\ pc = "train_rag_model"
    /\ run.i >= Len(run.all_documents)
    /\ ret' = Returned("None")
    /\ pc' = "returned"
    /\ UNCHANGED <<arg, world, metrics_history, run, executed, failures, collection>>

\* the caller takes the outcome of train_rag_model
TrainReturnToCaller ==
    /\ pc = "returned"
    /\ pc' = "idle"
    /\ arg' = NoCall
    /\ ret' = NoRet
    /\ failures' = <<>>
    /\ run' = [op |-> "none", calls |-> run.calls]
    /\ UNCHANGED <<world, metrics_history, executed, collection>>

NextTrain ==
    \/ TrainRagModelBegin
    \/ TrainRagModelBatch
    \/ TrainRagModelEnd
    \/ TrainReturnToCaller

TrainSpec == InitTrain /\ [][NextTrain]_vars

-----------------------------------------------------------------------------
(* Claims about train_rag_model (checked under TrainSpec) *)

\* the non-blank lines of a file, trimmed, with the kind and the file
SnippetsOfFile(type, file) ==
    LET lines == world.files[file]
        kept == SelectSeq([i \in 1..Len(lines) |-> i],
                          LAMBDA i : \E k \in 1..Len(lines[i]) : lines[i][k] \notin Whitespace)
    IN [k \in 1..Len(kept) |->
           [document |-> strip(lines[kept[k]]), type |-> type, source |-> file,
            line |-> kept[k] - 1]]

RECURSIVE SnippetsOfFiles(_, _)
SnippetsOfFiles(type, files) ==
    IF files = <<>> THEN <<>>
    ELSE SnippetsOfFile(type, Head(files)) \o SnippetsOfFiles(type, Tail(files))

\* all DDL files, then the documentation files, then the example files
ExpectedSnippets(a) ==
    SnippetsOfFiles("ddl", a.ddl_files)
        \o SnippetsOfFiles("documentation", a.doc_files)
        \o SnippetsOfFiles("example", a.example_files)

\* the batches written since the call began
WrittenBatches == SubSeq(collection, run.committed + 1, Len(collection))

Training == arg.op = "train_rag_model" /\ pc \in {"train_rag_model", "returned"}

\* batch j holds the snippets 100(j-1)+1 .. min(100j, total), with the
\* embeddings of exactly its documents
BatchIsSlice(batch, j, expected) ==
    LET first == 100 * (j - 1) + 1
        last == IF 100 * j < Len(expected) THEN 100 * j ELSE Len(expected)
    IN /\ Len(batch.documents) = last - first + 1
       /\ Len(batch.documents) <= 100
       /\ Len(batch.documents) >= 1
       /\ Len(batch.ids) = Len(batch.documents)
       /\ Len(batch.metadatas) = Len(batch.documents)
       /\ Len(batch.embeddings) = Len(batch.documents)
       /\ \A k \in 1..Len(batch.documents) :
             /\ batch.documents[k] = expected[first + k - 1].document
             /\ batch.metadatas[k].type = expected[first + k - 1].type
             /\ batch.metadatas[k].source = expected[first + k - 1].source
             /\ batch.embeddings[k] = [embedding_of |-> batch.documents[k]]

\* the number of batches of n snippets
BatchCount(n) == (n + 99) \div 100

\* C6: train_rag_model writes the snippets in consecutive batches of at most
\* 100, in collection order, each with the embeddings of its own documents;
\* when embedding or writing batch k raises, the batches 1..k-1 stay written,
\* batch k and the later ones are not, and the exception reaches the caller.
C6_BatchesCommittedUpToFailure ==
    Training =>
        LET expected == ExpectedSnippets(arg)
            written == WrittenBatches
        IN /\ \A j \in 1..Len(written) : BatchIsSlice(written[j], j, expected)
           /\ run.i = 100 * Len(written)
           /\ Len(written) <= BatchCount(Len(expected))
           /\ (pc = "returned" /\ ret.status = "returned") =>
                 /\ Len(written) = BatchCount(Len(expected))
                 /\ failures = <<>>
           /\ (pc = "returned" /\ failures # <<>>) =>
                 /\ ret = Raised(failures[1])
                 /\ Len(written) < BatchCount(Len(expected))
           /\ (pc = "returned" /\ ret.status = "raised") => failures # <<>>

\* C6 witness: the second of three batches failed: one batch is written
C6_Witness ==
    /\ Training
    /\ pc = "returned"
    /\ ret.status = "raised"
    /\ BatchCount(Len(ExpectedSnippets(arg))) = 3
    /\ Len(WrittenBatches) = 1
    /\ Len(WrittenBatches[1].documents) = 100


\* the ids of a sequence of batches, in the order they were written
RECURSIVE FlatIds(_)
FlatIds(batches) ==
    IF batches = <<>> THEN <<>> ELSE Head(batches).ids \o FlatIds(Tail(batches))

\* the first part of an id: the snippet type itself, or its short form
TypeTag == [t \in {"ddl", "documentation", "example"} |->
               IF t = "ddl" THEN <<"d","d","l">>
               ELSE IF t = "documentation" THEN <<"d","o","c","u","m","e","n","t","a","t","i","o","n">>
               ELSE <<"e","x","a","m","p","l","e">>]
ShortTag == [t \in {"ddl", "documentation", "example"} |->
               IF t = "ddl" THEN <<"d","d","l">>
               ELSE IF t = "documentation" THEN <<"d","o","c">>
               ELSE <<"e","x">>]

\* tag, file and line index joined by underscores
IdOfLine(tag, s) == tag[s.type] \o <<"_">> \o s.source \o <<"_">> \o Decimal(s.line)

\* the ids the call collected are those of the expected snippets
IdsHaveForm(tag) ==
    LET expected == ExpectedSnippets(arg) IN
    /\ Len(run.ids) = Len(expected)
    /\ \A k \in 1..Len(expected) : run.ids[k] = IdOfLine(tag, expected[k])

\* the files of the call that are ingested under a snippet type
FilesOfType(a, t) ==
    LET files == IF t = "ddl" THEN a.ddl_files
                 ELSE IF t = "documentation" THEN a.doc_files
                 ELSE a.example_files
    IN {files[k] : k \in 1..Len(files)}

\* what the call submits is a prefix of what it collected
SubmitsCollected ==
    LET ids == FlatIds(WrittenBatches) IN
    /\ Len(ids) <= Len(run.ids)
    /\ ids = SubSeq(run.ids, 1, Len(ids))

\* no two snippets of the call have the same id
IdsDistinct == Cardinality({run.ids[k] : k \in 1..Len(run.ids)}) = Len(run.ids)

\* every id written by an earlier call for a file the call ingests again
\* under the same type is an id of the call
IdsRepeat ==
    LET now == {run.ids[k] : k \in 1..Len(run.ids)} IN
    \A j \in 1..run.committed :
        \A k \in 1..Len(collection[j].ids) :
            collection[j].metadatas[k].source
                    \in FilesOfType(arg, collection[j].metadatas[k].type)
                => collection[j].ids[k] \in now

\* C12 (as claimed): ids are type, file and line index joined by underscores
\* with the type one of ddl, documentation, example; same file, same ids;
\* no two snippets of a call share an id
C12_IdsOfTypeFileLine ==
    Training => (IdsHaveForm(TypeTag) /\ SubmitsCollected /\ IdsDistinct /\ IdsRepeat)

\* C12 (amended): ids are tag, file and line index joined by underscores
\* with the tag ddl, doc or ex for the types ddl, documentation, example; a
\* file ingested again under the same type gets the same ids; no two
\* snippets of a call over distinct paths share an id
C12_IdsOfTagFileLine ==
    Training => (IdsHaveForm(ShortTag) /\ SubmitsCollected /\ IdsDistinct /\ IdsRepeat)

\* C12 witness: a second call with the arguments of the first, two files
\* among its examples, has submitted the ids the first call submitted
C12_Witness ==
    /\ Training
    /\ pc = "returned"
    /\ ret.status = "returned"
    /\ run.committed > 0
    /\ Len(arg.example_files) = 2
    /\ Len(run.ids) > 100
    /\ FlatIds(SubSeq(collection, 1, run.committed)) = run.ids
    /\ FlatIds(WrittenBatches) = run.ids


-----------------------------------------------------------------------------
(* LightweightText2SQLEvaluator: the judgments parsed from the replies of   *)
(* the local model. The Chinese characters of the keywords are written as   *)
(* the symbols zheng que (correct), cuo wu (wrong), deng jia (equivalent)   *)
(* and bu (not).                                                            *)

KwCorrect == <<"zheng", "que">>
KwWrong == <<"cuo", "wu">>
KwEquivalent == <<"deng", "jia">>
KwNotEquivalent == <<"bu", "deng", "jia">>

\* the lower-case letter of each upper-case letter
LowerOf == [c \in {UpperLetters[i] : i \in 1..26} |->
               LowerLetters[CHOOSE i \in 1..26 : UpperLetters[i] = c]]

\* str.lower()
lower(s) == [i \in 1..Len(s) |-> IF s[i] \in DOMAIN LowerOf THEN LowerOf[s[i]] ELSE s[i]]

\* LightweightText2SQLEvaluator._clean_response: the first keyword, in the
\* order correct, wrong, equivalent, not equivalent, that the reply contains
_clean_response(response) ==
    LET r == lower(strip(response)) IN
    IF contains(r, KwCorrect) THEN KwCorrect
    ELSE IF contains(r, KwWrong) THEN KwWrong
    ELSE IF contains(r, KwEquivalent) THEN KwEquivalent
    ELSE IF contains(r, KwNotEquivalent) THEN KwNotEquivalent
    ELSE <<>>

\* the three judgments, of the text the pipeline generated after the prompt
evaluate_grammar(generated) == _clean_response(generated) = KwCorrect
evaluate_equivalence(generated) == _clean_response(generated) = KwEquivalent
evaluate_correctness(generated) == _clean_response(generated) = KwCorrect

\* the replies of the model
JudgePieces == {KwCorrect, KwWrong, KwEquivalent, <<"bu">>, Sp, <<"A">>}
JudgeReplies == Concats(JudgePieces, MaxPieces)

InitJudge ==
    /\ pc = "idle"
    /\ arg = NoCall
    /\ ret = NoRet
    /\ world \in {[kind |-> "judge", generated |-> g] : g \in JudgeReplies}
    /\ metrics_history = <<>>
    /\ run = NoRun
    /\ executed = <<>>
    /\ failures = <<>>
    /\ collection = <<>>

JudgeCall(a, v) ==
    /\ arg' = a
    /\ ret' = Returned(v)
    /\ pc' = "returned"
    /\ UNCHANGED <<world, metrics_history, run, executed, failures, collection>>

CleanResponse ==
    /\ pc = "idle"
    /\ JudgeCall([op |-> "_clean_response", response |-> world.generated],
                 _clean_response(world.generated))

EvaluateGrammar ==
    /\ pc = "idle"
    /\ JudgeCall([op |-> "evaluate_grammar"], evaluate_grammar(world.generated))

EvaluateEquivalence ==
    /\ pc = "idle"
    /\ JudgeCall([op |-> "evaluate_equivalence"], evaluate_equivalence(world.generated))

EvaluateCorrectness ==
    /\ pc = "idle"
    /\ JudgeCall([op |-> "evaluate_correctness"], evaluate_correctness(world.generated))

NextJudge ==
    \/ CleanResponse
    \/ EvaluateGrammar
    \/ EvaluateEquivalence
    \/ EvaluateCorrectness
    \/ ReturnToCaller

JudgeSpec == InitJudge /\ [][NextJudge]_vars

\* every occurrence of the keyword for equivalent in s follows no negation
SaysEquivalentOnly(s) ==
    /\ \E i \in 1..Len(s) : OccursAt(s, KwEquivalent, i)
    /\ \A i \in 1..Len(s) : OccursAt(s, KwEquivalent, i) => (i = 1 \/ s[i - 1] # "bu")

\* C15: the reply not equivalent is parsed as not equivalent;
\* evaluate_equivalence returns True only for replies that say equivalent
\* without negation; a reply with both the keyword for correct and the one
\* for wrong is not parsed as one of the two.
C15_JudgmentAgreesWithReply ==
    /\ (Done("_clean_response") /\ arg.response = KwNotEquivalent) =>
          ret.value = KwNotEquivalent
    /\ (Done("evaluate_equivalence") /\ ret.value) => SaysEquivalentOnly(world.generated)
    /\ (Done("_clean_response") /\ contains(arg.response, KwCorrect)
            /\ contains(arg.response, KwWrong)) =>
          ret.value \notin {KwCorrect, KwWrong}

====
